---- MODULE Spec2Model ----
(***************************************************************************)
(* Annotation session of the SAM image labeler (static front end script). *)
(* The state is the closure state of the DOMContentLoaded handler plus    *)
(* the DOM state the handlers read back (button disabled flags, rendered  *)
(* thumbnails), and the asynchronous work in flight: oracle requests made *)
(* by generateMask, recolorings made by createColoredMask, and the upload *)
(* batches of the image loader.  One action is one event handler or one   *)
(* promise continuation, run to completion as the event loop runs it.     *)
(*                                                                         *)
(* Image ids are the 0-based indices of the script; imagesState[id + 1]   *)
(* is the entry of image id.  null is -1 for ids and indices, nullMask    *)
(* for a mask, noClass for the active class.                               *)
(***************************************************************************)
EXTENDS Integers, Sequences, FiniteSets, TLC

\* ---------------------------------------------------------------- bounds
\* User inputs that add to the session over a run: files selected in the
\* image loader, points placed on the canvas, classes added to the registry.
MaxInputs == 4

\* ---------------------------------------------------------------- inputs
\* Pointer events the canvas reports (viewport coordinates, mouse button).
MouseEvents ==
    { [clientX |-> 100, clientY |-> 100, button |-> 0],
      [clientX |-> 50,  clientY |-> 20,  button |-> 2] }

\* Bounding rectangle of the displayed canvas (getBoundingClientRect).
CanvasRect == [left |-> 0, top |-> 0, width |-> 400, height |-> 300]

\* Decoded size of every uploaded image.
ImageElement == [width |-> 800, height |-> 600]

\* Decoded sizes of the image the pointer mapping is exercised on.
ImageSizes == { ImageElement, [width |-> 3, height |-> 2] }

\* Bounding rectangles the styled canvas can have: displayed at half size,
\* at natural size with an offset in the page, and at double size.
DisplayRects ==
    { CanvasRect,
      [left |-> 8, top |-> 16, width |-> 800, height |-> 600],
      [left |-> 0, top |-> 0, width |-> 1600, height |-> 1200] }

\* Pointer events dispatched to a canvas displayed at rect: positions
\* strictly inside the rectangle, its first and last pixel included.
EventsOn(rect) ==
    { [clientX |-> rect.left, clientY |-> rect.top, button |-> 0],
      [clientX |-> rect.left + 100, clientY |-> rect.top + 100, button |-> 0],
      [clientX |-> rect.left + 50, clientY |-> rect.top + 20, button |-> 2],
      [clientX |-> rect.left + rect.width - 1,
       clientY |-> rect.top + rect.height - 1, button |-> 2] }

\* Values typed into the new-class inputs.
ClassNames == {"cat", "dog"}
ClassColors == {"#00FF00", "#0000FF"}

\* Values of the name input when the add button is clicked: the names, a
\* name with blanks around it, blanks only, nothing.
NameInputs == ClassNames \cup {" cat ", "  ", ""}

\* The mask image the oracle answers with (data.mask): RGBA bytes, row by
\* row; one opaque white pixel and one transparent pixel.
OracleMasks ==
    { [width |-> 2, height |-> 1, data |-> << 255, 255, 255, 255, 0, 0, 0, 0 >>] }

\* Colors the recoloring is exercised with (values of the color input).
RecolorColors == ClassColors \cup {"#1a2b3c"}

\* Mask images the recoloring is exercised on (RGBA bytes, row by row):
\* pixels that are fully transparent with and without color, barely
\* opaque, half and fully opaque, in images of several shapes.
RawMasks ==
    OracleMasks \cup
    { [width |-> 1, height |-> 2, data |-> << 255, 255, 255, 1, 255, 255, 255, 0 >>],
      [width |-> 2, height |-> 1, data |-> << 0, 0, 0, 128, 10, 20, 30, 255 >>],
      [width |-> 1, height |-> 2, data |-> << 0, 0, 0, 0, 0, 0, 0, 0 >>],
      [width |-> 1, height |-> 1, data |-> << 10, 20, 30, 64 >>],
      [width |-> 2, height |-> 2, data |-> << 0, 0, 0, 0, 7, 7, 7, 255,
                                              9, 9, 9, 2, 255, 0, 0, 0 >>] }

\* File lists chosen in the file input of the React application.
FileLists ==
    { << [file |-> "a.png", preview |-> "blob:a"] >>,
      << [file |-> "a.png", preview |-> "blob:a"],
         [file |-> "b.png", preview |-> "blob:b"] >> }

\* Pointer positions on the Konva stage, in halves of a pixel
\* (getRelativePointerPosition returns fractions).
StagePointers == { [x |-> 21, y |-> 20], [x |-> 7, y |-> 101] }

\* response.data.masks of the React application's /predict: no candidate,
\* one candidate, or two candidates.
MaskLists ==
    { <<>>,
      << [mask_b64 |-> "m1"] >>,
      << [mask_b64 |-> "m1"], [mask_b64 |-> "m2"] >> }

\* Texts typed into the class name field of Controls.
TypedNames == { "", "car", "tree" }

\* Outcomes of fetch('/predict'): resolved ok, resolved non-OK, rejected.
FetchOutcomes == {"ok", "notOk", "networkError"}

\* ----------------------------------------------------------------- values
null == -1
noClass == ""
DefaultColor == "#FF0000"
nullMask == [img |-> null, pts |-> <<>>, color |-> "",
             width |-> 0, height |-> 0, data |-> <<>>]

\* useState(null) of selectedImage: no gallery item is selected.
noImage == [file |-> "", preview |-> ""]

\* The value of data.mask before response.json() has delivered it.
noRawMask == [width |-> 0, height |-> 0, data |-> <<>>]

VARIABLES
    imagesState,      \* Seq of image entries
    activeImageId,    \* null or an image id
    classes,          \* Seq of [name, color]
    activeClass,      \* noClass or a class name
    isPredicting,     \* BOOLEAN
    tasks,            \* Seq of generateMask invocations in flight
    batches,          \* Seq of upload batches whose Promise.all is pending
    inputs,           \* files selected, points placed and classes added so far
    clearDisabled,    \* clearPointsButton.disabled
    saveDisabled,     \* saveMaskButton.disabled
    exportDisabled,   \* exportButton.disabled
    thumbnails,       \* number of thumbnail divs in imageThumbnailList
    masksList,        \* number of li elements in masksListContainer
    canvas,           \* the draw calls of the last redrawCanvas, in order
    exports,          \* Seq of the export requests in flight (their payloads)
    App,              \* the state hooks of the React component App
    Controls,         \* the state hook of the React component Controls
    posts             \* Seq of the handlePredict requests in flight

vars == << imagesState, activeImageId, classes, activeClass, isPredicting,
           tasks, batches, inputs, clearDisabled, saveDisabled,
           exportDisabled, thumbnails, masksList, canvas, exports,
           App, Controls, posts >>

\* The page of the static front end, and the React application.
page == << imagesState, activeImageId, classes, activeClass, isPredicting,
           tasks, batches, clearDisabled, saveDisabled, exportDisabled,
           thumbnails, masksList, canvas, exports >>
react == << App, Controls, posts >>

session == << imagesState, activeImageId, classes, activeClass, isPredicting >>
dom == << clearDisabled, saveDisabled, exportDisabled, thumbnails, masksList, canvas >>

\* ---------------------------------------------------------------- helpers
ImageIds == 0 .. (Len(imagesState) - 1)

stateOf(id) == imagesState[id + 1]

hasActiveImageState == activeImageId # null

getActiveImageState == stateOf(activeImageId)

\* classes.find(c => c.name === name); undefined is the record noClassInfo.
noClassInfo == [name |-> noClass, color |-> ""]

RECURSIVE findIn(_, _)
findIn(cs, name) ==
    IF cs = <<>> THEN noClassInfo
    ELSE IF Head(cs).name = name THEN Head(cs)
    ELSE findIn(Tail(cs), name)

findClassByName(name) == findIn(classes, name)

\* Math.round of the rational n / d (d > 0): floor(n/d + 1/2).
MathRound(n, d) == (2 * n + d) \div (2 * d)

\* The point recorded in viewport space: the offset in the displayed
\* rectangle without the scale to canvas pixels.
pointOf_Unscaled(e, rect, img) ==
    [ x |-> MathRound(e.clientX - rect.left, 1),
      y |-> MathRound(e.clientY - rect.top, 1),
      label |-> IF e.button = 0 THEN 1 ELSE 0 ]

\* The point the mousedown handler records for event e on a canvas that is
\* displayed at rect and whose pixel size is that of the active image:
\* Math.round((e.clientX - rect.left) * (canvas.width / rect.width)).
pointOf(e, rect, img) ==
    [ x |-> MathRound((e.clientX - rect.left) * img.width, rect.width),
      y |-> MathRound((e.clientY - rect.top) * img.height, rect.height),
      label |-> IF e.button = 0 THEN 1 ELSE 0 ]

\* The characters of a color string.
charsOf(hexColor) ==
    CASE hexColor = "#FF0000" -> << "#", "F", "F", "0", "0", "0", "0" >>
      [] hexColor = "#00FF00" -> << "#", "0", "0", "F", "F", "0", "0" >>
      [] hexColor = "#0000FF" -> << "#", "0", "0", "0", "0", "F", "F" >>
      [] hexColor = "#1a2b3c" -> << "#", "1", "a", "2", "b", "3", "c" >>

\* String.prototype.slice(start, end) on a character sequence (0-based,
\* end exclusive).
slice(chars, start, end) == SubSeq(chars, start + 1, end)

HexDigits == << "0", "1", "2", "3", "4", "5", "6", "7", "8", "9",
                "a", "b", "c", "d", "e", "f" >>
HexDigitsUpper == << "0", "1", "2", "3", "4", "5", "6", "7", "8", "9",
                     "A", "B", "C", "D", "E", "F" >>

digitOf(ch) ==
    CHOOSE v \in 0 .. 15 : HexDigits[v + 1] = ch \/ HexDigitsUpper[v + 1] = ch

RECURSIVE parseInt16(_)
\* parseInt(chars, 16) of a string of hexadecimal digits.
parseInt16(chars) ==
    IF chars = <<>> THEN 0
    ELSE 16 * parseInt16(SubSeq(chars, 1, Len(chars) - 1)) + digitOf(chars[Len(chars)])

\* tempCtx.drawImage(maskImage, 0, 0) on the fresh canvas followed by
\* getImageData: a pixel of alpha 0 leaves the canvas transparent black,
\* every other pixel keeps its alpha.
getImageData(mask) ==
    [n \in 1 .. Len(mask.data) |->
        IF mask.data[4 * ((n - 1) \div 4) + 4] = 0 THEN 0 ELSE mask.data[n]]

RECURSIVE colorLoop(_, _, _, _, _)
\* for (let i = 0; i < data.length; i += 4)
\*     if (data[i + 3] > 0) { data[i] = r; data[i+1] = g; data[i+2] = b; data[i+3] = 128; }
\* (data is 0-based in the source, 1-based here)
colorLoop(data, i, r, g, b) ==
    IF ~(i < Len(data)) THEN data
    ELSE colorLoop(IF data[i + 3 + 1] > 0
                      THEN [data EXCEPT ![i + 1] = r, ![i + 1 + 1] = g,
                                        ![i + 2 + 1] = b, ![i + 3 + 1] = 128]
                      ELSE data,
                   i + 4, r, g, b)

\* The recoloring with the alpha of the source kept in every pixel.
createColoredMask_KeepsSourceAlpha(req, hexColor) ==
    LET r == parseInt16(slice(charsOf(hexColor), 1, 3))
        g == parseInt16(slice(charsOf(hexColor), 3, 5))
        b == parseInt16(slice(charsOf(hexColor), 5, 7))
        source == getImageData(req.mask)
        colored == colorLoop(source, 0, r, g, b)
    IN  [ img |-> req.img, pts |-> req.body, color |-> hexColor,
          width |-> req.mask.width, height |-> req.mask.height,
          data |-> [n \in 1 .. Len(colored) |->
                       IF n % 4 = 0 THEN source[n] ELSE colored[n]] ]

\* createColoredMask: the image finalMask resolves with, for the mask
\* image of the oracle's answer to request req and the color hexColor.
createColoredMask(req, hexColor) ==
    LET r == parseInt16(slice(charsOf(hexColor), 1, 3))
        g == parseInt16(slice(charsOf(hexColor), 3, 5))
        b == parseInt16(slice(charsOf(hexColor), 5, 7))
    IN  [ img |-> req.img, pts |-> req.body, color |-> hexColor,
          width |-> req.mask.width, height |-> req.mask.height,
          data |-> colorLoop(getImageData(req.mask), 0, r, g, b) ]

RemoveAt(s, k) == SubSeq(s, 1, k - 1) \o SubSeq(s, k + 1, Len(s))

\* ------------------------------------------------------------- UI refresh
\* updateButtonsState, on the state the handler leaves behind.
updateButtonsState ==
    LET hasActiveImage == activeImageId' # null
        state == imagesState'[activeImageId' + 1]
        hasCurrentWork == hasActiveImage /\ (Len(state.points) > 0 \/ state.currentMask # nullMask)
    IN  /\ clearDisabled' = ~hasCurrentWork
        /\ saveDisabled' = ~(hasActiveImage /\ state.currentMask # nullMask /\ activeClass' # noClass)
        /\ exportDisabled' = (Len(imagesState') = 0)

renderThumbnails == thumbnails' = Len(imagesState')

\* renderMasksListUI without masksListContainer.innerHTML = '': the items of
\* the previous rendering stay in the container.
renderMasksListUI_KeepsOldItems ==
    LET rendered == IF activeImageId' = null THEN 0
                    ELSE Len(imagesState'[activeImageId' + 1].savedMasks)
    IN  masksList' = IF masksList > rendered THEN masksList ELSE rendered

\* renderMasksListUI: one li per saved mask of the active image.
renderMasksListUI ==
    masksList' = IF activeImageId' = null THEN 0
                 ELSE Len(imagesState'[activeImageId' + 1].savedMasks)

\* The draw calls of redrawCanvas with the markers of the points drawn
\* before the masks.
drawCalls_PointsUnderMasks(state) ==
    << [call |-> "drawImage", what |-> state.imageElement, style |-> "1.0"] >>
    \o [n \in 1 .. Len(state.points) |->
          [call |-> "fill", what |-> state.points[n],
           style |-> IF state.points[n].label = 1 THEN "green" ELSE "red"]]
    \o [n \in 1 .. Len(state.savedMasks) |->
          [call |-> "drawImage", what |-> state.savedMasks[n].maskImageObject,
           style |-> IF n - 1 = state.highlightedMaskIndex THEN "0.9" ELSE "0.5"]]
    \o (IF state.currentMask # nullMask
        THEN << [call |-> "drawImage", what |-> state.currentMask, style |-> "1.0"] >>
        ELSE <<>>)

\* The draw calls redrawCanvas makes for an image entry, in order, after
\* clearRect: drawImage of the base image; drawImage of every saved mask
\* under globalAlpha 0.9 (highlighted index) or 0.5; globalAlpha = 1.0 and
\* drawImage of the current mask if there is one; for every point an arc at
\* (x, y) filled green (label 1) or red.  what is the image or the point
\* drawn, style the globalAlpha of a
\* drawImage and the fillStyle of a fill.
drawCalls(state) ==
    << [call |-> "drawImage", what |-> state.imageElement, style |-> "1.0"] >>
    \o [n \in 1 .. Len(state.savedMasks) |->
          [call |-> "drawImage", what |-> state.savedMasks[n].maskImageObject,
           style |-> IF n - 1 = state.highlightedMaskIndex THEN "0.9" ELSE "0.5"]]
    \o (IF state.currentMask # nullMask
        THEN << [call |-> "drawImage", what |-> state.currentMask, style |-> "1.0"] >>
        ELSE <<>>)
    \o [n \in 1 .. Len(state.points) |->
          [call |-> "fill", what |-> state.points[n],
           style |-> IF state.points[n].label = 1 THEN "green" ELSE "red"]]

\* redrawCanvas without ctx.clearRect: the draw calls of the earlier redraws
\* stay on the canvas.
redrawCanvas_NoClearRect ==
    canvas' = IF activeImageId' = null \/ ~(activeImageId' \in 0 .. (Len(imagesState') - 1))
              THEN <<>>
              ELSE canvas \o drawCalls(imagesState'[activeImageId' + 1])

\* redrawCanvas: with no active image the canvas is hidden and nothing is
\* drawn.
redrawCanvas ==
    canvas' = IF activeImageId' = null \/ ~(activeImageId' \in 0 .. (Len(imagesState') - 1))
              THEN <<>>
              ELSE drawCalls(imagesState'[activeImageId' + 1])

\* updateAllUI: redrawCanvas, renderThumbnails, renderClassesUI,
\* renderMasksListUI, updateButtonsState.
updateAllUI == redrawCanvas /\ renderThumbnails /\ renderMasksListUI /\ updateButtonsState

\* ------------------------------------------------------------------- Init
\* The React application as mounted: the initial values of the useState
\* hooks of App and Controls, no request in flight.
reactMounted ==
    /\ App = [ uploadedFiles |-> <<>>,
               selectedImage |-> noImage,
               classes |-> << "car", "person", "road" >>,
               activeClass |-> "car",
               annotations |-> <<>>,
               proposedMasks |-> <<>>,
               points |-> <<>>,
               error |-> "" ]
    /\ Controls = [ newClassName |-> "" ]
    /\ posts = <<>>

\* The closure variables as declared, and the DOM as init() leaves it:
\* setLanguage ends in applyTranslations, whose updateAllUI disables the
\* three buttons and renders no thumbnail for the empty session.
Init ==
    /\ imagesState = <<>>
    /\ activeImageId = null
    /\ classes = <<>>
    /\ activeClass = noClass
    /\ isPredicting = FALSE
    /\ tasks = <<>>
    /\ batches = <<>>
    /\ inputs = 0
    /\ clearDisabled = TRUE
    /\ saveDisabled = TRUE
    /\ exportDisabled = TRUE
    /\ thumbnails = 0
    /\ masksList = 0
    /\ canvas = <<>>
    /\ exports = <<>>
    /\ reactMounted

\* ----------------------------------------------------------- image loader
newImageEntry(f) ==
    [ imageElement |-> ImageElement,
      imageDataUrl |-> f,
      points |-> <<>>,
      currentMask |-> nullMask,
      savedMasks |-> <<>>,
      highlightedMaskIndex |-> null ]

\* imageLoader 'change': n files selected; every file gets a reader.
imageLoaderChange(n) ==
    /\ n > 0
    /\ inputs + n <= MaxInputs
    /\ batches' = Append(batches, [pending |-> (inputs + 1) .. (inputs + n), failed |-> FALSE])
    /\ inputs' = inputs + n
    /\ UNCHANGED << session, tasks, dom >>
    /\ UNCHANGED << exports, react >>

\* setActiveImage(imageId)
setActiveImageBody(imageId) ==
    /\ activeImageId' = imageId
    /\ updateAllUI

\* img.onload with imagesState.unshift in place of imagesState.push.
imageDecoded_Unshift(b, f) ==
    /\ b \in 1 .. Len(batches)
    /\ f \in batches[b].pending
    /\ imagesState' = << newImageEntry(f) >> \o imagesState
    /\ UNCHANGED << classes, activeClass, isPredicting, tasks, inputs >>
    /\ LET rest == batches[b].pending \ {f}
           done == rest = {} /\ ~batches[b].failed
       IN  /\ batches' = IF rest = {} THEN RemoveAt(batches, b)
                         ELSE [batches EXCEPT ![b].pending = rest]
           /\ IF done
              THEN IF activeImageId = null /\ Len(imagesState') > 0
                   THEN setActiveImageBody(0)
                   ELSE /\ renderThumbnails
                        /\ UNCHANGED << activeImageId, clearDisabled, saveDisabled, exportDisabled,
                                        masksList, canvas >>
              ELSE UNCHANGED << activeImageId, dom >>
    /\ UNCHANGED << exports, react >>

\* img.onload of file f of batch b: the entry is pushed and the file's
\* promise resolved; when it was the last one of a batch with no failed
\* file, the Promise.all continuation runs in the same turn.
imageDecoded(b, f) ==
    /\ b \in 1 .. Len(batches)
    /\ f \in batches[b].pending
    /\ imagesState' = Append(imagesState, newImageEntry(f))
    /\ UNCHANGED << classes, activeClass, isPredicting, tasks, inputs >>
    /\ LET rest == batches[b].pending \ {f}
           done == rest = {} /\ ~batches[b].failed
       IN  /\ batches' = IF rest = {} THEN RemoveAt(batches, b)
                         ELSE [batches EXCEPT ![b].pending = rest]
           /\ IF done
              THEN IF activeImageId = null /\ Len(imagesState') > 0
                   THEN setActiveImageBody(0)
                   ELSE /\ renderThumbnails
                        /\ UNCHANGED << activeImageId, clearDisabled, saveDisabled, exportDisabled,
                                        masksList, canvas >>
              ELSE UNCHANGED << activeImageId, dom >>
    /\ UNCHANGED << exports, react >>

\* A file that the reader or the image decoder rejects: neither onload
\* fires, the file's promise stays pending for ever.
imageDecodeFails(b, f) ==
    /\ b \in 1 .. Len(batches)
    /\ f \in batches[b].pending
    /\ LET rest == batches[b].pending \ {f}
       IN  batches' = IF rest = {} THEN RemoveAt(batches, b)
                      ELSE [batches EXCEPT ![b].pending = rest, ![b].failed = TRUE]
    /\ UNCHANGED << session, tasks, inputs, dom >>
    /\ UNCHANGED << exports, react >>

\* thumbDiv.onclick of a rendered thumbnail
thumbnailClick(index) ==
    /\ index \in 0 .. (thumbnails - 1)
    /\ UNCHANGED << imagesState, classes, activeClass, isPredicting, tasks, batches, inputs >>
    /\ setActiveImageBody(index)
    /\ UNCHANGED << exports, react >>

\* ------------------------------------------------------- points and oracle
\* The early return of the mousedown handler without the isPredicting test.
mousedownIgnored_NoPredictingTest == ~hasActiveImageState

\* if (!state || isPredicting) return;
mousedownIgnored == ~hasActiveImageState \/ isPredicting

\* The mousedown handler posting only the point just placed.
mousedownAt_PostsLastPoint(e, rect) ==
    /\ ~mousedownIgnored
    /\ inputs < MaxInputs
    /\ inputs' = inputs + 1
    /\ LET state == getActiveImageState
           points == Append(state.points, pointOf(e, rect, state.imageElement))
       IN  /\ imagesState' = [imagesState EXCEPT ![activeImageId + 1].points = points]
           /\ isPredicting' = TRUE
           /\ tasks' = Append(tasks, [img |-> activeImageId,
                                      body |-> << points[Len(points)] >>,
                                      stage |-> "fetch", color |-> "",
                                      mask |-> noRawMask])
    /\ UNCHANGED activeImageId
    /\ redrawCanvas
    /\ UNCHANGED << classes, activeClass, batches, clearDisabled, saveDisabled,
                    exportDisabled, thumbnails, masksList >>
    /\ UNCHANGED << exports, react >>

\* canvas 'mousedown' with the canvas displayed at rect: record the point,
\* redrawCanvas, then generateMask up to its first await (isPredicting set,
\* fetch issued with the serialized point list of the active image).
mousedownAt(e, rect) ==
    /\ ~mousedownIgnored
    /\ inputs < MaxInputs
    /\ inputs' = inputs + 1
    /\ LET state == getActiveImageState
           points == Append(state.points, pointOf(e, rect, state.imageElement))
       IN  /\ imagesState' = [imagesState EXCEPT ![activeImageId + 1].points = points]
           /\ isPredicting' = TRUE
           /\ tasks' = Append(tasks, [img |-> activeImageId, body |-> points,
                                      stage |-> "fetch", color |-> "",
                                      mask |-> noRawMask])
    /\ UNCHANGED activeImageId
    /\ redrawCanvas
    /\ UNCHANGED << classes, activeClass, batches, clearDisabled, saveDisabled,
                    exportDisabled, thumbnails, masksList >>
    /\ UNCHANGED << exports, react >>

canvasMousedown(e) == mousedownAt(e, CanvasRect)

\* generateMask without the finally block: isPredicting is reset only on
\* the path that reaches the end of the try.
fetchSettles_NoFinally(k, outcome) ==
    /\ k \in 1 .. Len(tasks)
    /\ tasks[k].stage = "fetch"
    /\ IF outcome = "ok"
       THEN /\ tasks' = [tasks EXCEPT ![k].stage = "json"]
            /\ UNCHANGED isPredicting
       ELSE /\ tasks' = RemoveAt(tasks, k)
            /\ UNCHANGED isPredicting
    /\ UNCHANGED << imagesState, activeImageId, classes, activeClass, batches, inputs, dom >>
    /\ UNCHANGED << exports, react >>

\* generateMask resumes after await fetch(...): a rejected fetch or a
\* non-OK response goes through catch and finally; an OK response goes on
\* to await response.json().
fetchSettles(k, outcome) ==
    /\ k \in 1 .. Len(tasks)
    /\ tasks[k].stage = "fetch"
    /\ IF outcome = "ok"
       THEN /\ tasks' = [tasks EXCEPT ![k].stage = "json"]
            /\ UNCHANGED isPredicting
       ELSE /\ tasks' = RemoveAt(tasks, k)
            /\ isPredicting' = FALSE
    /\ UNCHANGED << imagesState, activeImageId, classes, activeClass, batches, inputs, dom >>
    /\ UNCHANGED << exports, react >>

\* The continuation without the finally block: isPredicting stays set.
jsonSettlesWith_NoFinally(k, parsed, mask) ==
    /\ k \in 1 .. Len(tasks)
    /\ tasks[k].stage = "json"
    /\ IF parsed
       THEN LET color == IF activeClass # noClass
                         THEN findClassByName(activeClass).color
                         ELSE DefaultColor
            IN  tasks' = [tasks EXCEPT ![k].stage = "recolor", ![k].color = color,
                                       ![k].mask = mask]
       ELSE tasks' = RemoveAt(tasks, k)
    /\ UNCHANGED isPredicting
    /\ UNCHANGED << imagesState, activeImageId, classes, activeClass, batches, inputs, dom >>
    /\ UNCHANGED << exports, react >>

\* generateMask resumes after await response.json(): the color is read
\* from the active class, createColoredMask is started, and finally
\* resets isPredicting.  A body that is not JSON goes through catch.
jsonSettlesWith(k, parsed, mask) ==
    /\ k \in 1 .. Len(tasks)
    /\ tasks[k].stage = "json"
    /\ IF parsed
       THEN LET color == IF activeClass # noClass
                         THEN findClassByName(activeClass).color
                         ELSE DefaultColor
            IN  tasks' = [tasks EXCEPT ![k].stage = "recolor", ![k].color = color,
                                       ![k].mask = mask]
       ELSE tasks' = RemoveAt(tasks, k)
    /\ isPredicting' = FALSE
    /\ UNCHANGED << imagesState, activeImageId, classes, activeClass, batches, inputs, dom >>
    /\ UNCHANGED << exports, react >>

jsonSettles(k, parsed) == \E mask \in OracleMasks : jsonSettlesWith(k, parsed, mask)

\* The continuation storing the mask in the entry that is active when it
\* runs instead of the entry generateMask captured.
coloredMaskReady_IntoActiveImage(k) ==
    /\ k \in 1 .. Len(tasks)
    /\ tasks[k].stage = "recolor"
    /\ hasActiveImageState
    /\ imagesState' = [imagesState EXCEPT ![activeImageId + 1].currentMask =
                           createColoredMask(tasks[k], tasks[k].color)]
    /\ tasks' = RemoveAt(tasks, k)
    /\ UNCHANGED << activeImageId, classes, activeClass >>
    /\ updateAllUI
    /\ UNCHANGED << isPredicting, batches, inputs >>
    /\ UNCHANGED << exports, react >>

\* The continuation writing into the last image entry of the session.
coloredMaskReady_IntoLastImage(k) ==
    /\ k \in 1 .. Len(tasks)
    /\ tasks[k].stage = "recolor"
    /\ imagesState' = [imagesState EXCEPT ![Len(imagesState)].currentMask =
                           createColoredMask(tasks[k], tasks[k].color)]
    /\ tasks' = RemoveAt(tasks, k)
    /\ UNCHANGED << activeImageId, classes, activeClass >>
    /\ updateAllUI
    /\ UNCHANGED << isPredicting, batches, inputs >>
    /\ UNCHANGED << exports, react >>

\* createColoredMask(...).then: finalMask has loaded, the colored mask is
\* stored in the entry generateMask captured, updateAllUI.
coloredMaskReady(k) ==
    /\ k \in 1 .. Len(tasks)
    /\ tasks[k].stage = "recolor"
    /\ imagesState' = [imagesState EXCEPT ![tasks[k].img + 1].currentMask =
                           createColoredMask(tasks[k], tasks[k].color)]
    /\ tasks' = RemoveAt(tasks, k)
    /\ UNCHANGED << activeImageId, classes, activeClass >>
    /\ updateAllUI
    /\ UNCHANGED << isPredicting, batches, inputs >>
    /\ UNCHANGED << exports, react >>

\* data.mask is not a decodable image: maskImage.onload never fires and
\* the promise of createColoredMask never resolves.
maskImageNeverLoads(k) ==
    /\ k \in 1 .. Len(tasks)
    /\ tasks[k].stage = "recolor"
    /\ tasks' = RemoveAt(tasks, k)
    /\ UNCHANGED << session, batches, inputs, dom >>
    /\ UNCHANGED << exports, react >>

\* ------------------------------------------------------------ save / clear
\* The save handler without the statement state.points = [].
saveMaskButtonClick_KeepsPoints ==
    /\ ~saveDisabled
    /\ hasActiveImageState
    /\ LET state == getActiveImageState
       IN  IF state.currentMask = nullMask \/ activeClass = noClass
           THEN UNCHANGED << imagesState, dom >>
           ELSE LET classInfo == findClassByName(activeClass)
                    saved == Append(state.savedMasks,
                                 [ maskImageObject |-> state.currentMask,
                                   maskImageSrc |-> state.currentMask,
                                   className |-> classInfo.name,
                                   classColor |-> classInfo.color ])
                IN  /\ imagesState' = [imagesState EXCEPT
                                          ![activeImageId + 1].savedMasks = saved,
                                          ![activeImageId + 1].currentMask = nullMask]
                    /\ UNCHANGED << activeImageId, activeClass >>
                    /\ updateAllUI
    /\ UNCHANGED << activeImageId, classes, activeClass, isPredicting, tasks, batches, inputs >>
    /\ UNCHANGED << exports, react >>

\* The save handler without the test of activeClass.
saveMaskHandler_NoClassTest ==
    IF ~hasActiveImageState \/ getActiveImageState.currentMask = nullMask
    THEN UNCHANGED vars
    ELSE LET state == getActiveImageState
             classInfo == findClassByName(activeClass)
             saved == Append(state.savedMasks,
                          [ maskImageObject |-> state.currentMask,
                            maskImageSrc |-> state.currentMask,
                            className |-> classInfo.name,
                            classColor |-> classInfo.color ])
         IN  /\ imagesState' = [imagesState EXCEPT
                                   ![activeImageId + 1].savedMasks = saved,
                                   ![activeImageId + 1].currentMask = nullMask,
                                   ![activeImageId + 1].points = <<>>]
             /\ UNCHANGED << activeImageId, activeClass >>
             /\ updateAllUI
             /\ UNCHANGED << classes, isPredicting, tasks, batches, inputs, exports, react >>

\* The listener of saveMaskButton:
\* if (!state || !state.currentMask || !activeClass) return; push the saved
\* mask, reset currentMask and points, updateAllUI.
saveMaskHandler ==
    IF \/ ~hasActiveImageState
       \/ getActiveImageState.currentMask = nullMask
       \/ activeClass = noClass
    THEN UNCHANGED vars
    ELSE LET state == getActiveImageState
             classInfo == findClassByName(activeClass)
             saved == Append(state.savedMasks,
                          [ maskImageObject |-> state.currentMask,
                            maskImageSrc |-> state.currentMask,
                            className |-> classInfo.name,
                            classColor |-> classInfo.color ])
         IN  /\ imagesState' = [imagesState EXCEPT
                                   ![activeImageId + 1].savedMasks = saved,
                                   ![activeImageId + 1].currentMask = nullMask,
                                   ![activeImageId + 1].points = <<>>]
             /\ UNCHANGED << activeImageId, activeClass >>
             /\ updateAllUI
             /\ UNCHANGED << classes, isPredicting, tasks, batches, inputs, exports, react >>

\* saveMaskButton 'click' (a disabled button dispatches no click)
saveMaskButtonClick ==
    /\ ~saveDisabled
    /\ saveMaskHandler

\* The clear handler also emptying the saved masks of the image.
clearPointsHandler_DropsSavedMasks ==
    IF ~hasActiveImageState
    THEN UNCHANGED vars
    ELSE LET state == getActiveImageState
         IN  IF Len(state.points) > 0 \/ state.currentMask # nullMask
             THEN /\ imagesState' = [imagesState EXCEPT
                                        ![activeImageId + 1].points = <<>>,
                                        ![activeImageId + 1].currentMask = nullMask,
                                        ![activeImageId + 1].savedMasks = <<>>]
                  /\ UNCHANGED << activeImageId, activeClass >>
                  /\ updateAllUI
                  /\ UNCHANGED << classes, isPredicting, tasks, batches, inputs, exports, react >>
             ELSE UNCHANGED vars

\* The clear handler without the test for current work.
clearPointsHandler_AlwaysUpdates ==
    IF ~hasActiveImageState
    THEN UNCHANGED vars
    ELSE /\ imagesState' = [imagesState EXCEPT
                               ![activeImageId + 1].points = <<>>,
                               ![activeImageId + 1].currentMask = nullMask]
         /\ UNCHANGED << activeImageId, activeClass >>
         /\ updateAllUI
         /\ UNCHANGED << classes, isPredicting, tasks, batches, inputs, exports, react >>

\* The listener of clearPointsButton: if (!state) return; when there are
\* points or a current mask, reset both and updateAllUI.
clearPointsHandler ==
    IF ~hasActiveImageState
    THEN UNCHANGED vars
    ELSE LET state == getActiveImageState
         IN  IF Len(state.points) > 0 \/ state.currentMask # nullMask
             THEN /\ imagesState' = [imagesState EXCEPT
                                        ![activeImageId + 1].points = <<>>,
                                        ![activeImageId + 1].currentMask = nullMask]
                  /\ UNCHANGED << activeImageId, activeClass >>
                  /\ updateAllUI
                  /\ UNCHANGED << classes, isPredicting, tasks, batches, inputs, exports, react >>
             ELSE UNCHANGED vars

\* clearPointsButton 'click' (a disabled button dispatches no click)
clearPointsButtonClick ==
    /\ ~clearDisabled
    /\ clearPointsHandler

\* ----------------------------------------------------------------- classes
\* setActiveClass(className): renderClassesUI, updateButtonsState
setActiveClassBody(className) ==
    /\ activeClass' = className
    /\ updateButtonsState

\* String.prototype.trim on the values typed into the name input.
trim(value) ==
    CASE value = " cat " -> "cat"
      [] value = "  " -> ""
      [] OTHER -> value

\* The add-class listener without the test !findClassByName(className).
addClassButtonClick_NoDuplicateTest(value, color) ==
    /\ LET className == trim(value)
       IN  IF className # ""
           THEN /\ inputs < MaxInputs
                /\ inputs' = inputs + 1
                /\ classes' = Append(classes, [name |-> className, color |-> color])
                /\ UNCHANGED << imagesState, activeImageId >>
                /\ setActiveClassBody(className)
                /\ UNCHANGED << thumbnails, masksList, canvas >>
           ELSE UNCHANGED << classes, imagesState, activeImageId, activeClass, inputs, dom >>
    /\ UNCHANGED << imagesState, activeImageId, isPredicting, tasks, batches >>
    /\ UNCHANGED << exports, react >>

\* addClassButton 'click' with the value of the name input and of the color
\* input: the trimmed name is pushed unless it is empty or registered,
\* renderClassesUI, setActiveClass.
addClassButtonClick(value, color) ==
    /\ LET className == trim(value)
       IN  IF className # "" /\ findClassByName(className) = noClassInfo
           THEN /\ inputs < MaxInputs
                /\ inputs' = inputs + 1
                /\ classes' = Append(classes, [name |-> className, color |-> color])
                /\ UNCHANGED << imagesState, activeImageId >>
                /\ setActiveClassBody(className)
                /\ UNCHANGED << thumbnails, masksList, canvas >>
           ELSE UNCHANGED << classes, imagesState, activeImageId, activeClass, inputs, dom >>
    /\ UNCHANGED << imagesState, activeImageId, isPredicting, tasks, batches >>
    /\ UNCHANGED << exports, react >>

\* 'click' on the li of a registered class
classListClick(k) ==
    /\ k \in 1 .. Len(classes)
    /\ UNCHANGED << imagesState, activeImageId >>
    /\ setActiveClassBody(classes[k].name)
    /\ UNCHANGED << imagesState, activeImageId, classes, isPredicting, tasks, batches,
                    inputs, thumbnails, masksList, canvas >>
    /\ UNCHANGED << exports, react >>

\* ------------------------------------------------------------------ others
\* The assignment without the toggle: the clicked index is always set.
toggleHighlight_AlwaysSets(highlightedMaskIndex, maskIndex) == maskIndex

\* state.highlightedMaskIndex === maskIndex ? null : maskIndex
toggleHighlight(highlightedMaskIndex, maskIndex) ==
    IF highlightedMaskIndex = maskIndex THEN null ELSE maskIndex

\* The listener setting the index on every image entry.
masksListClick_AllImages(maskIndex) ==
    /\ maskIndex \in 0 .. (masksList - 1)
    /\ hasActiveImageState
    /\ imagesState' = [n \in 1 .. Len(imagesState) |->
                          [imagesState[n] EXCEPT !.highlightedMaskIndex =
                               toggleHighlight(getActiveImageState.highlightedMaskIndex, maskIndex)]]
    /\ UNCHANGED activeImageId
    /\ renderMasksListUI
    /\ redrawCanvas
    /\ UNCHANGED << classes, activeClass, isPredicting, tasks, batches, inputs,
                    clearDisabled, saveDisabled, exportDisabled, thumbnails >>
    /\ UNCHANGED << exports, react >>

\* masksListContainer 'click' on the rendered li of saved mask maskIndex:
\* toggle the highlight of the active image, renderMasksListUI, redrawCanvas.
masksListClick(maskIndex) ==
    /\ maskIndex \in 0 .. (masksList - 1)
    /\ hasActiveImageState
    /\ LET state == getActiveImageState
       IN  imagesState' = [imagesState EXCEPT ![activeImageId + 1].highlightedMaskIndex =
                               toggleHighlight(state.highlightedMaskIndex, maskIndex)]
    /\ UNCHANGED activeImageId
    /\ renderMasksListUI
    /\ redrawCanvas
    /\ UNCHANGED << classes, activeClass, isPredicting, tasks, batches, inputs,
                    clearDisabled, saveDisabled, exportDisabled, thumbnails >>
    /\ UNCHANGED << exports, react >>

\* setLanguage resumes after the translations have loaded:
\* applyTranslations ends with updateAllUI.
applyTranslations ==
    /\ UNCHANGED << imagesState, activeImageId, activeClass >>
    /\ updateAllUI
    /\ UNCHANGED << classes, isPredicting, tasks, batches, inputs >>
    /\ UNCHANGED << exports, react >>

\* ------------------------------------------------------------ specification
Next ==
    \/ \E n \in 1 .. MaxInputs : imageLoaderChange(n)
    \/ \E b \in 1 .. Len(batches) : \E f \in batches[b].pending : imageDecoded(b, f)
    \/ \E b \in 1 .. Len(batches) : \E f \in batches[b].pending : imageDecodeFails(b, f)
    \/ \E index \in 0 .. (thumbnails - 1) : thumbnailClick(index)
    \/ \E e \in MouseEvents : canvasMousedown(e)
    \/ \E k \in 1 .. Len(tasks) : \E outcome \in FetchOutcomes : fetchSettles(k, outcome)
    \/ \E k \in 1 .. Len(tasks) : \E parsed \in BOOLEAN : jsonSettles(k, parsed)
    \/ \E k \in 1 .. Len(tasks) : coloredMaskReady(k)
    \/ \E k \in 1 .. Len(tasks) : maskImageNeverLoads(k)
    \/ saveMaskButtonClick
    \/ clearPointsButtonClick
    \/ \E value \in NameInputs : \E color \in ClassColors :
           addClassButtonClick(value, color)
    \/ \E k \in 1 .. Len(classes) : classListClick(k)
    \/ \E maskIndex \in 0 .. (masksList - 1) : masksListClick(maskIndex)
    \/ applyTranslations

Spec == Init /\ [][Next]_vars

\* The callbacks the browser owes the page are eventually delivered: every
\* file being read ends in img.onload or in an error no handler listens to,
\* every fetch settles, every body is read, every mask image loads or
\* fails.  What the user does is left free.
settled ==
    /\ WF_vars(\E b \in 1 .. Len(batches) : \E f \in batches[b].pending :
                  imageDecoded(b, f) \/ imageDecodeFails(b, f))
    /\ WF_vars(\E k \in 1 .. Len(tasks) : \E outcome \in FetchOutcomes : fetchSettles(k, outcome))
    /\ WF_vars(\E k \in 1 .. Len(tasks) : \E parsed \in BOOLEAN : jsonSettles(k, parsed))
    /\ WF_vars(\E k \in 1 .. Len(tasks) : coloredMaskReady(k) \/ maskImageNeverLoads(k))

SpecFair == Spec /\ settled

\* ------------------------------------------------------------ the export
\* The payload with the points and the pending mask of every image added.
exportPayload_WithCurrentWork ==
    [ imagesState |-> [n \in 1 .. Len(imagesState) |->
          [ imageDataUrl |-> imagesState[n].imageDataUrl,
            points |-> imagesState[n].points,
            currentMask |-> imagesState[n].currentMask,
            savedMasks |-> [j \in 1 .. Len(imagesState[n].savedMasks) |->
                [ maskImage |-> imagesState[n].savedMasks[j].maskImageSrc,
                  className |-> imagesState[n].savedMasks[j].className,
                  classColor |-> imagesState[n].savedMasks[j].classColor ]] ]],
      classes |-> classes ]

\* const payload = { imagesState: imagesState.map(s => ({imageDataUrl,
\* savedMasks: s.savedMasks.map(m => ({maskImage, className, classColor}))})),
\* classes: classes }
exportPayload ==
    [ imagesState |-> [n \in 1 .. Len(imagesState) |->
          [ imageDataUrl |-> imagesState[n].imageDataUrl,
            savedMasks |-> [j \in 1 .. Len(imagesState[n].savedMasks) |->
                [ maskImage |-> imagesState[n].savedMasks[j].maskImageSrc,
                  className |-> imagesState[n].savedMasks[j].className,
                  classColor |-> imagesState[n].savedMasks[j].classColor ]] ]],
      classes |-> classes ]

\* exportButton 'click' (a disabled button dispatches no click): alert and
\* return for an empty session, else disable the button, build the payload
\* and POST it to /export.
exportButtonClick ==
    /\ ~exportDisabled
    /\ IF Len(imagesState) = 0
       THEN UNCHANGED << exportDisabled, exports, inputs >>
       ELSE /\ inputs < MaxInputs
            /\ inputs' = inputs + 1
            /\ exportDisabled' = TRUE
            /\ exports' = Append(exports, [payload |-> exportPayload, stage |-> "fetch"])
    /\ UNCHANGED << imagesState, activeImageId, classes, activeClass, isPredicting,
                    tasks, batches, clearDisabled, saveDisabled, thumbnails,
                    masksList, canvas, react >>

\* finally { exportButton.disabled = false; ... }: the request is over.
exportFinally(k) ==
    /\ exportDisabled' = FALSE
    /\ exports' = SubSeq(exports, 1, k - 1) \o SubSeq(exports, k + 1, Len(exports))

\* fetch('/export') settles: with an ok response the handler goes on to
\* await response.blob(); a response that is not ok and a rejected fetch end
\* in catch (alert) and finally.
exportFetchSettles(k, outcome) ==
    /\ exports[k].stage = "fetch"
    /\ IF outcome = "ok"
       THEN /\ exports' = [exports EXCEPT ![k].stage = "blob"]
            /\ UNCHANGED exportDisabled
       ELSE exportFinally(k)
    /\ UNCHANGED << imagesState, activeImageId, classes, activeClass, isPredicting,
                    tasks, batches, inputs, clearDisabled, saveDisabled, thumbnails,
                    masksList, canvas, react >>

\* response.blob() settles: the archive is handed to the browser as a
\* download, or the rejection is caught (alert); finally either way.
exportBlobSettles(k, read) ==
    /\ exports[k].stage = "blob"
    /\ exportFinally(k)
    /\ UNCHANGED << imagesState, activeImageId, classes, activeClass, isPredicting,
                    tasks, batches, inputs, clearDisabled, saveDisabled, thumbnails,
                    masksList, canvas, react >>

NextExport ==
    \/ Next
    \/ exportButtonClick
    \/ \E k \in 1 .. Len(exports) : \E outcome \in FetchOutcomes : exportFetchSettles(k, outcome)
    \/ \E k \in 1 .. Len(exports) : \E read \in BOOLEAN : exportBlobSettles(k, read)

SpecExport == Init /\ [][NextExport]_vars

\* ------------------------------------------------ the React application
\* handleFileChange: the chosen files replace the gallery and reset the
\* selection, the annotations, the proposed masks and the points.
handleFileChange(files) ==
    /\ inputs < MaxInputs
    /\ inputs' = inputs + 1
    /\ App' = [App EXCEPT !.uploadedFiles = files, !.error = "",
                          !.selectedImage = noImage, !.annotations = <<>>,
                          !.proposedMasks = <<>>, !.points = <<>>]
    /\ UNCHANGED << page, Controls, posts >>

\* handleImageSelect: click on gallery item index.
handleImageSelect(index) ==
    /\ index \in 1 .. Len(App.uploadedFiles)
    /\ App' = [App EXCEPT !.selectedImage = App.uploadedFiles[index],
                          !.annotations = <<>>, !.proposedMasks = <<>>,
                          !.points = <<>>]
    /\ UNCHANGED << page, inputs, Controls, posts >>

\* handleStageClick (label 1) and handleContextMenu (label 0) of
\* AnnotationCanvas, which is rendered only for a selected image.
handleStagePointer(pointer, label) ==
    /\ App.selectedImage # noImage
    /\ inputs < MaxInputs
    /\ inputs' = inputs + 1
    /\ App' = [App EXCEPT !.points =
                   Append(App.points, [x |-> MathRound(pointer.x, 2),
                                       y |-> MathRound(pointer.y, 2),
                                       label |-> label])]
    /\ UNCHANGED << page, Controls, posts >>

handleStageClick(pointer) == handleStagePointer(pointer, 1)

handleContextMenu(pointer) == handleStagePointer(pointer, 0)

\* handlePredict up to its await: without a selected image or without
\* points it alerts and returns; otherwise it clears the error and posts
\* the image with JSON.stringify({ points }).
handlePredict ==
    /\ IF App.selectedImage = noImage \/ Len(App.points) = 0
       THEN UNCHANGED << App, posts, inputs >>
       ELSE /\ inputs < MaxInputs
            /\ inputs' = inputs + 1
            /\ App' = [App EXCEPT !.error = ""]
            /\ posts' = Append(posts, [image |-> App.selectedImage.file,
                                       points |-> App.points])
    /\ UNCHANGED << page, Controls >>

\* handlePredict resumes after await axios.post: the masks of the response
\* become the proposed masks, or the error text is set.
postSettles(k, outcome, masks) ==
    /\ k \in 1 .. Len(posts)
    /\ App' = IF outcome = "ok"
              THEN [App EXCEPT !.proposedMasks = masks]
              ELSE [App EXCEPT !.error = "prediction failed"]
    /\ posts' = RemoveAt(posts, k)
    /\ UNCHANGED << page, inputs, Controls >>

\* The ColoredMask elements AnnotationCanvas renders for the proposed
\* masks: every element of proposedMasks, the first green, the others
\* orange, each clickable.
proposedLayer ==
    IF App.selectedImage = noImage THEN <<>>
    ELSE [i \in 1 .. Len(App.proposedMasks) |->
            [ src |-> App.proposedMasks[i].mask_b64,
              color |-> IF i - 1 = 0 THEN << 0, 255, 0 >> ELSE << 255, 165, 0 >> ]]

\* addAnnotation, the onClick of the rendered proposed mask i.
addAnnotation(i) ==
    /\ i \in 1 .. Len(proposedLayer)
    /\ App' = [App EXCEPT !.annotations =
                              Append(App.annotations,
                                     [ maskData |-> App.proposedMasks[i],
                                       className |-> App.activeClass ]),
                          !.proposedMasks = <<>>,
                          !.points = <<>>]
    /\ UNCHANGED << page, inputs, Controls, posts >>

\* onClear of Controls: setPoints([]).
onClear ==
    /\ App' = [App EXCEPT !.points = <<>>]
    /\ UNCHANGED << page, inputs, Controls, posts >>

\* onChange of the class name field.
setNewClassName(typed) ==
    /\ Controls' = [Controls EXCEPT !.newClassName = typed]
    /\ UNCHANGED << page, inputs, App, posts >>

\* classes.includes(name)
includes(cs, name) == \E n \in 1 .. Len(cs) : cs[n] = name

\* handleAddClass of Controls.
handleAddClass ==
    /\ IF Controls.newClassName # "" /\ ~includes(App.classes, Controls.newClassName)
       THEN /\ inputs < MaxInputs
            /\ inputs' = inputs + 1
            /\ App' = [App EXCEPT !.classes = Append(App.classes, Controls.newClassName)]
            /\ Controls' = [Controls EXCEPT !.newClassName = ""]
       ELSE UNCHANGED << App, Controls, inputs >>
    /\ UNCHANGED << page, posts >>

\* onChange of the class select: setActiveClass(e.target.value).
selectActiveClass(n) ==
    /\ n \in 1 .. Len(App.classes)
    /\ App' = [App EXCEPT !.activeClass = App.classes[n]]
    /\ UNCHANGED << page, inputs, Controls, posts >>

NextReact ==
    \/ \E files \in FileLists : handleFileChange(files)
    \/ \E index \in 1 .. Len(App.uploadedFiles) : handleImageSelect(index)
    \/ \E pointer \in StagePointers : handleStageClick(pointer)
    \/ \E pointer \in StagePointers : handleContextMenu(pointer)
    \/ handlePredict
    \/ \E k \in 1 .. Len(posts) : \E outcome \in FetchOutcomes : \E masks \in MaskLists :
           postSettles(k, outcome, masks)
    \/ \E i \in 1 .. Len(proposedLayer) : addAnnotation(i)
    \/ onClear
    \/ \E typed \in TypedNames : setNewClassName(typed)
    \/ handleAddClass
    \/ \E n \in 1 .. Len(App.classes) : selectActiveClass(n)

SpecReact == Init /\ [][NextReact]_vars

\* ------------------------------------------------- the pointer mapping
\* One image of either size has been loaded and is shown; the canvas is
\* displayed at any of the rectangles and clicked anywhere on it.
InitPointer ==
    /\ \E size \in ImageSizes :
          imagesState = << [newImageEntry(1) EXCEPT !.imageElement = size] >>
    /\ activeImageId = 0
    /\ classes = <<>>
    /\ activeClass = noClass
    /\ isPredicting = FALSE
    /\ tasks = <<>>
    /\ batches = <<>>
    /\ inputs = 1
    /\ clearDisabled = TRUE
    /\ saveDisabled = TRUE
    /\ exportDisabled = TRUE
    /\ thumbnails = 1
    /\ masksList = 0
    /\ canvas = drawCalls(imagesState[1])
    /\ exports = <<>>
    /\ reactMounted

NextPointer ==
    \/ \E rect \in DisplayRects : \E e \in EventsOn(rect) : mousedownAt(e, rect)
    \/ \E k \in 1 .. Len(tasks) : \E outcome \in FetchOutcomes : fetchSettles(k, outcome)
    \/ \E k \in 1 .. Len(tasks) : \E parsed \in BOOLEAN : jsonSettles(k, parsed)
    \/ \E k \in 1 .. Len(tasks) : coloredMaskReady(k)

SpecPointer == InitPointer /\ [][NextPointer]_vars

\* ------------------------------------------------- the oracle requests
\* The handlers that read or write isPredicting and the requests, on one
\* loaded image, with the callbacks eventually delivered.
NextRequests ==
    \/ \E e \in MouseEvents : canvasMousedown(e)
    \/ \E k \in 1 .. Len(tasks) : \E outcome \in FetchOutcomes : fetchSettles(k, outcome)
    \/ \E k \in 1 .. Len(tasks) : \E parsed \in BOOLEAN : jsonSettles(k, parsed)
    \/ \E k \in 1 .. Len(tasks) : coloredMaskReady(k)
    \/ \E k \in 1 .. Len(tasks) : maskImageNeverLoads(k)
    \/ clearPointsButtonClick
    \/ applyTranslations

SpecRequests == InitPointer /\ [][NextRequests]_vars /\ settled

\* ----------------------------------------------------- the recoloring
\* One image has been loaded and is shown; either no class exists, or one
\* class of any color has been added (and is therefore active).  The
\* oracle answers with any of the mask images.
InitRecolor ==
    /\ imagesState = << newImageEntry(1) >>
    /\ activeImageId = 0
    /\ \/ classes = <<>> /\ activeClass = noClass /\ inputs = 1
       \/ \E color \in RecolorColors :
             /\ classes = << [name |-> "cat", color |-> color] >>
             /\ activeClass = "cat"
             /\ inputs = 2
    /\ isPredicting = FALSE
    /\ tasks = <<>>
    /\ batches = <<>>
    /\ clearDisabled = TRUE
    /\ saveDisabled = TRUE
    /\ exportDisabled = TRUE
    /\ thumbnails = 1
    /\ masksList = 0
    /\ canvas = drawCalls(imagesState[1])
    /\ exports = <<>>
    /\ reactMounted

NextRecolor ==
    \/ \E e \in MouseEvents : canvasMousedown(e)
    \/ \E k \in 1 .. Len(tasks) : \E outcome \in FetchOutcomes : fetchSettles(k, outcome)
    \/ \E k \in 1 .. Len(tasks) : \E parsed \in BOOLEAN : \E mask \in RawMasks :
           jsonSettlesWith(k, parsed, mask)
    \/ \E k \in 1 .. Len(tasks) : coloredMaskReady(k)

SpecRecolor == InitRecolor /\ [][NextRecolor]_vars

\* ------------------------------------------------------------- vocabulary
points(i) == stateOf(i).points
pendingMask(i) == stateOf(i).currentMask
confirmedMasks(i) == stateOf(i).savedMasks

pointsAfter(i) == imagesState'[i + 1].points
pendingMaskAfter(i) == imagesState'[i + 1].currentMask
confirmedMasksAfter(i) == imagesState'[i + 1].savedMasks

\* MASK_READY: a pending mask is present and was produced for the current
\* point list of the image that holds it.
MaskReady(i) ==
    /\ pendingMask(i) # nullMask
    /\ pendingMask(i).img = i
    /\ pendingMask(i).pts = points(i)

MaskReadyAfter(i) ==
    /\ pendingMaskAfter(i) # nullMask
    /\ pendingMaskAfter(i).img = i
    /\ pendingMaskAfter(i).pts = pointsAfter(i)

IsProperPrefix(s, t) == Len(s) < Len(t) /\ SubSeq(t, 1, Len(s)) = s

\* A request whose fetch (or body parsing) has not settled yet.
FetchOutstanding == \E k \in 1 .. Len(tasks) : tasks[k].stage \in {"fetch", "json"}

FailedOutcomes == {"notOk", "networkError"}

\* ------------------------------------------------------------------ claims
\* C1: a result whose request was issued before a later point was added to
\* the image is discarded when it arrives: storing it never changes the
\* image's pending mask.
C1_StaleResultDiscarded ==
    [][ \A k \in 1 .. Len(tasks) :
          (coloredMaskReady(k) /\ IsProperPrefix(tasks[k].body, points(tasks[k].img)))
              => pendingMaskAfter(tasks[k].img) = pendingMask(tasks[k].img) ]_vars

\* C2: a result is applied only if the image's point list is the one the
\* request was issued with; after clearPoints or save the late result is
\* dropped and the pending mask stays absent.
C2_AppliedOnlyIfCurrent ==
    [][ \A k \in 1 .. Len(tasks) :
          (coloredMaskReady(k) /\ tasks[k].body # points(tasks[k].img))
              => pendingMaskAfter(tasks[k].img) = pendingMask(tasks[k].img) ]_vars

\* C3: in every reachable state of every image entry a pending mask is
\* present only if the point list is non-empty.
C3_PendingOnlyWithPoints ==
    \A i \in ImageIds : pendingMask(i) # nullMask => points(i) # <<>>

\* C4: every step that confirms a mask on an image (the save handler run
\* with a pending mask and an active class, or any step that changes the
\* image's confirmed list) ends with points empty, pending mask absent and
\* the confirmed list exactly one longer, all in that one step.
C4_ConfirmAtomic ==
    [][ /\ (saveMaskButtonClick /\ getActiveImageState.currentMask # nullMask
                                /\ activeClass # noClass)
            => confirmedMasksAfter(activeImageId) # confirmedMasks(activeImageId)
        /\ \A i \in ImageIds :
             confirmedMasksAfter(i) # confirmedMasks(i)
               => /\ pointsAfter(i) = <<>>
                  /\ pendingMaskAfter(i) = nullMask
                  /\ Len(confirmedMasksAfter(i)) = Len(confirmedMasks(i)) + 1 ]_vars

\* C4 witness: a save has acted on an image.
C4_Witness ==
    \E i \in ImageIds :
        /\ Len(confirmedMasks(i)) = 1
        /\ points(i) = <<>>
        /\ pendingMask(i) = nullMask

\* C5: the confirmed list of an image grows only from state MASK_READY,
\* i.e. only when its pending mask was produced for its current point list.
C5_ConfirmOnlyWhenMaskReady ==
    [][ \A i \in ImageIds :
          Len(confirmedMasksAfter(i)) > Len(confirmedMasks(i)) => MaskReady(i) ]_vars

\* C6: every stored confirmed mask is colored with the class color stored
\* with it.
C6_ConfirmedColorIsClassColor ==
    \A i \in ImageIds : \A n \in 1 .. Len(confirmedMasks(i)) :
        confirmedMasks(i)[n].maskImageObject.color = confirmedMasks(i)[n].classColor

\* C7: when an oracle request fails, the image's point list is unchanged
\* and the image has no pending mask afterwards.
C7_FailureLeavesNoPendingMask ==
    [][ \A k \in 1 .. Len(tasks) : \A outcome \in FailedOutcomes :
          fetchSettles(k, outcome)
              => /\ pointsAfter(tasks[k].img) = points(tasks[k].img)
                 /\ pendingMaskAfter(tasks[k].img) = nullMask ]_vars

C9_MaskReadyUntilNextEdit ==
    [][ \A i \in ImageIds :
          (MaskReady(i) /\ pointsAfter(i) = points(i)) => MaskReadyAfter(i) ]_vars

\* C10: adding a point to an image, and every later step of the request
\* and recoloring it started, leaves every other image entry unchanged.
C10_OtherImagesUnchanged ==
    [][ /\ \A e \in MouseEvents :
             canvasMousedown(e)
               => \A j \in ImageIds \ {activeImageId} : imagesState'[j + 1] = imagesState[j + 1]
        /\ \A k \in 1 .. Len(tasks) :
             ( \/ \E outcome \in FetchOutcomes : fetchSettles(k, outcome)
               \/ \E parsed \in BOOLEAN : jsonSettles(k, parsed)
               \/ coloredMaskReady(k)
               \/ maskImageNeverLoads(k) )
               => \A j \in ImageIds \ {tasks[k].img} : imagesState'[j + 1] = imagesState[j + 1] ]_vars

\* C10 witness: with two images loaded, the result of a request made on
\* image 1 has been stored while image 0 is the active one.
C10_Witness ==
    /\ Len(imagesState) = 2
    /\ activeImageId = 0
    /\ pendingMask(1) # nullMask
    /\ pendingMask(1).img = 1

highlightedIndex(i) == stateOf(i).highlightedMaskIndex
highlightedIndexAfter(i) == imagesState'[i + 1].highlightedMaskIndex

\* C11: for every image entry, highlightedIndex is absent or a valid index
\* into that entry's confirmed masks.
C11_HighlightValid ==
    \A i \in ImageIds :
        \/ highlightedIndex(i) = null
        \/ highlightedIndex(i) \in 0 .. (Len(confirmedMasks(i)) - 1)

\* C11 witness: the second of two confirmed masks of an image is highlighted.
C11_Witness ==
    \E i \in ImageIds : Len(confirmedMasks(i)) = 2 /\ highlightedIndex(i) = 1

\* C12 (as claimed): after a toggle of index i, a second toggle of i gives
\* back the value highlightedIndex had before the first, whatever it was.
C12_ToggleTwiceRestores ==
    [][ \A maskIndex \in 0 .. (masksList - 1) :
          masksListClick(maskIndex)
            => toggleHighlight(highlightedIndexAfter(activeImageId), maskIndex)
                   = highlightedIndex(activeImageId) ]_vars

\* C12 (amended): the second toggle of i gives back the original value when
\* that was absent or i; when it was another index j, two toggles of i
\* leave the highlight absent.
C12_ToggleTwice ==
    [][ \A maskIndex \in 0 .. (masksList - 1) :
          masksListClick(maskIndex)
            => toggleHighlight(highlightedIndexAfter(activeImageId), maskIndex)
                   = IF highlightedIndex(activeImageId) \in {null, maskIndex}
                     THEN highlightedIndex(activeImageId)
                     ELSE null ]_vars

\* C12 witness: two confirmed masks, the first highlighted, so that index 1
\* can be toggled from another valid index.
C12_Witness ==
    \E i \in ImageIds :
        /\ i = activeImageId
        /\ masksList = 2
        /\ Len(confirmedMasks(i)) = 2
        /\ highlightedIndex(i) = 0

\* C13: a toggle of a rendered index i sets the active image's
\* highlightedIndex to i when it was absent or different and clears it when
\* it was i; points, pending mask and confirmed masks of that image, every
\* other image entry, the classes and the active image stay unchanged.
C13_ToggleFrame ==
    [][ \A maskIndex \in 0 .. (masksList - 1) :
          masksListClick(maskIndex)
            => /\ highlightedIndexAfter(activeImageId) =
                     IF highlightedIndex(activeImageId) = maskIndex THEN null ELSE maskIndex
               /\ pointsAfter(activeImageId) = points(activeImageId)
               /\ pendingMaskAfter(activeImageId) = pendingMask(activeImageId)
               /\ confirmedMasksAfter(activeImageId) = confirmedMasks(activeImageId)
               /\ \A j \in ImageIds \ {activeImageId} : imagesState'[j + 1] = imagesState[j + 1]
               /\ Len(imagesState') = Len(imagesState)
               /\ UNCHANGED << activeImageId, classes, activeClass, isPredicting, tasks >> ]_vars

\* C13 witness: two images loaded, a mask of the active one highlighted.
C13_Witness ==
    /\ Len(imagesState) = 2
    /\ hasActiveImageState
    /\ highlightedIndex(activeImageId) = 0

\* C14: across every step the confirmed list of every image keeps its
\* entries as a prefix, grows by at most one entry, and grows only by the
\* save handler acting on that image as the active one.
C14_ConfirmedAppendOnly ==
    [][ /\ Len(imagesState') >= Len(imagesState)
        /\ \A i \in ImageIds :
             /\ Len(confirmedMasksAfter(i)) >= Len(confirmedMasks(i))
             /\ Len(confirmedMasksAfter(i)) <= Len(confirmedMasks(i)) + 1
             /\ SubSeq(confirmedMasksAfter(i), 1, Len(confirmedMasks(i))) = confirmedMasks(i)
             /\ Len(confirmedMasksAfter(i)) > Len(confirmedMasks(i))
                  => (saveMaskButtonClick /\ activeImageId = i) ]_vars

\* C14 witness: an image with a confirmed mask on which work went on (a new
\* point was placed after the confirm).
C14_Witness ==
    \E i \in ImageIds : Len(confirmedMasks(i)) = 1 /\ points(i) # <<>>

\* C15: with no active class, a run of the save handler changes nothing.
C15_NoClassConfirmRejected ==
    activeClass = noClass => ~ENABLED (saveMaskHandler /\ vars' # vars)

\* C15 witness: the active image has a pending mask and no class is active.
C15_Witness ==
    /\ hasActiveImageState
    /\ activeClass = noClass
    /\ pendingMask(activeImageId) # nullMask

\* C16: a clear click empties the points and discards the pending mask of
\* the active image, leaving its confirmed masks and highlight unchanged;
\* on an image with no points and no pending mask a run of the clear
\* handler changes nothing, the DOM included.
C16_ClearPoints ==
    /\ [][ clearPointsButtonClick
             => /\ pointsAfter(activeImageId) = <<>>
                /\ pendingMaskAfter(activeImageId) = nullMask
                /\ confirmedMasksAfter(activeImageId) = confirmedMasks(activeImageId)
                /\ highlightedIndexAfter(activeImageId) = highlightedIndex(activeImageId) ]_vars
    /\ []( ( /\ hasActiveImageState
             /\ points(activeImageId) = <<>>
             /\ pendingMask(activeImageId) = nullMask )
           => ~ENABLED (clearPointsHandler /\ vars' # vars) )

\* C16 witness: a clear has emptied the points of the active image while
\* the request made for them is still in flight.
C16_Witness ==
    /\ hasActiveImageState
    /\ points(activeImageId) = <<>>
    /\ pendingMask(activeImageId) = nullMask
    /\ confirmedMasks(activeImageId) = <<>>
    /\ \E k \in 1 .. Len(tasks) : tasks[k].img = activeImageId

\* C17: every recorded point lies inside its image,
\* 0 <= x <= width - 1 and 0 <= y <= height - 1.
C17_PointsInsideImage ==
    \A i \in ImageIds :
        \A n \in 1 .. Len(points(i)) :
            /\ points(i)[n].x \in 0 .. (stateOf(i).imageElement.width - 1)
            /\ points(i)[n].y \in 0 .. (stateOf(i).imageElement.height - 1)

\* C18: the point a mousedown records is the event's offset in the
\* displayed rectangle scaled by image size / display size and rounded to
\* the nearest integer (halves up), per axis; on an 800x600 image displayed
\* at 400x300 the offset (100,100) records (200,200).
C18_PointerMapping ==
    [][ \A rect \in DisplayRects : \A e \in EventsOn(rect) :
          mousedownAt(e, rect)
            => LET img == getActiveImageState.imageElement
                   p == pointsAfter(activeImageId)[Len(pointsAfter(activeImageId))]
                   dx == 2 * ((e.clientX - rect.left) * img.width - p.x * rect.width)
                   dy == 2 * ((e.clientY - rect.top) * img.height - p.y * rect.height)
               IN  /\ Len(pointsAfter(activeImageId)) = Len(points(activeImageId)) + 1
                   /\ - rect.width <= dx /\ dx < rect.width
                   /\ - rect.height <= dy /\ dy < rect.height
                   /\ ( /\ img = [width |-> 800, height |-> 600]
                        /\ rect.width = 400 /\ rect.height = 300
                        /\ e.clientX - rect.left = 100
                        /\ e.clientY - rect.top = 100 )
                      => (p.x = 200 /\ p.y = 200) ]_vars

\* C18 witness: the 800x600 image, displayed at 400x300 and at 1600x1200,
\* holds the points recorded for the offset (100,100) at either scale.
C18_Witness ==
    /\ hasActiveImageState
    /\ getActiveImageState.imageElement = [width |-> 800, height |-> 600]
    /\ \E n, m \in 1 .. Len(points(activeImageId)) :
          /\ points(activeImageId)[n] = [x |-> 200, y |-> 200, label |-> 1]
          /\ points(activeImageId)[m] = [x |-> 50, y |-> 50, label |-> 1]

\* The red, green and blue components of the colors in use.
TargetRGB(hexColor) ==
    CASE hexColor = "#FF0000" -> << 255, 0, 0 >>
      [] hexColor = "#00FF00" -> << 0, 255, 0 >>
      [] hexColor = "#0000FF" -> << 0, 0, 255 >>
      [] hexColor = "#1a2b3c" -> << 26, 43, 60 >>

\* C19: when a recoloring completes, the colored mask has the dimensions
\* of the raw mask; every pixel whose raw alpha is > 0 is exactly
\* (r, g, b, 128) for the target color, whatever its raw alpha and color,
\* and every pixel whose raw alpha is 0 has alpha 0.
C19_Recolor ==
    [][ \A k \in 1 .. Len(tasks) :
          coloredMaskReady(k)
            => LET raw == tasks[k].mask
                   out == pendingMaskAfter(tasks[k].img)
                   rgb == TargetRGB(tasks[k].color)
               IN  /\ out.width = raw.width
                   /\ out.height = raw.height
                   /\ Len(out.data) = 4 * raw.width * raw.height
                   /\ \A px \in 0 .. (raw.width * raw.height - 1) :
                        IF raw.data[4 * px + 4] > 0
                        THEN SubSeq(out.data, 4 * px + 1, 4 * px + 4)
                                 = << rgb[1], rgb[2], rgb[3], 128 >>
                        ELSE out.data[4 * px + 4] = 0 ]_vars

\* C19 witness: a pending mask one pixel wide and two high whose first
\* pixel (raw alpha 1) took the class color at alpha 128 and whose second
\* pixel (raw alpha 0) stayed transparent.
C19_Witness ==
    \E i \in ImageIds :
        /\ pendingMask(i).width = 1
        /\ pendingMask(i).height = 2
        /\ pendingMask(i).data = << 26, 43, 60, 128, 0, 0, 0, 0 >>

\* C20: the draw list of the redraw of an image is, in this order and
\* with nothing after it: the base image; every confirmed mask in
\* insertion order, under alpha 0.9 if its index is the highlighted one and
\* 0.5 otherwise; the pending mask, if present, under alpha 1.0; every
\* point in insertion order as a marker, green for a positive label and
\* red for a negative one.
C20_DrawOrder ==
    hasActiveImageState =>
        LET state == getActiveImageState
            saved == Len(state.savedMasks)
            pending == IF state.currentMask # nullMask THEN 1 ELSE 0
        IN  /\ Len(canvas) = 1 + saved + pending + Len(state.points)
            /\ canvas[1].call = "drawImage"
            /\ canvas[1].what = state.imageElement
            /\ \A n \in 1 .. saved :
                 /\ canvas[1 + n].call = "drawImage"
                 /\ canvas[1 + n].what = state.savedMasks[n].maskImageObject
                 /\ canvas[1 + n].style =
                        (IF state.highlightedMaskIndex = n - 1 THEN "0.9" ELSE "0.5")
            /\ pending = 1 =>
                 /\ canvas[1 + saved + 1].call = "drawImage"
                 /\ canvas[1 + saved + 1].what = state.currentMask
                 /\ canvas[1 + saved + 1].style = "1.0"
            /\ \A n \in 1 .. Len(state.points) :
                 /\ canvas[1 + saved + pending + n].call = "fill"
                 /\ canvas[1 + saved + pending + n].what.x = state.points[n].x
                 /\ canvas[1 + saved + pending + n].what.y = state.points[n].y
                 /\ canvas[1 + saved + pending + n].style =
                        (IF state.points[n].label = 1 THEN "green" ELSE "red")

\* C20 witness: a redraw of an image with a highlighted confirmed mask, a
\* pending mask and a point.
C20_Witness ==
    /\ hasActiveImageState
    /\ Len(confirmedMasks(activeImageId)) = 1
    /\ highlightedIndex(activeImageId) = 0
    /\ pendingMask(activeImageId) # nullMask
    /\ points(activeImageId) # <<>>
    /\ Len(canvas) = 4

\* C21: a redraw on its own (updateAllUI run by applyTranslations) changes
\* no image entry, nor the classes, the active image or the active class;
\* and in every state a further redraw reproduces the draw list the last
\* redraw left on the canvas.
C21_RedrawIdempotent ==
    /\ [][ applyTranslations
             => UNCHANGED << imagesState, activeImageId, classes, activeClass >> ]_vars
    /\ [](~ENABLED (applyTranslations /\ canvas' # canvas))

\* C21 witness: the canvas shows the base image, one confirmed mask and one
\* point, and nothing pending.
C21_Witness ==
    /\ hasActiveImageState
    /\ Len(confirmedMasks(activeImageId)) = 1
    /\ pendingMask(activeImageId) = nullMask
    /\ Len(points(activeImageId)) = 1
    /\ Len(canvas) = 3

\* C22: every decode callback appends exactly one entry with no points, no
\* pending mask, no confirmed masks and no highlight at the end of
\* imagesState, whichever pending file of whichever batch it is for; the
\* entries already there keep their index and content, and an active image
\* id stays what it was.  Across every step the list never shrinks and an
\* index keeps designating the same image.
C22_DecodeAppendsEmptyEntry ==
    [][ /\ \A b \in 1 .. Len(batches) : \A f \in batches[b].pending :
             imageDecoded(b, f)
               => /\ Len(imagesState') = Len(imagesState) + 1
                  /\ SubSeq(imagesState', 1, Len(imagesState)) = imagesState
                  /\ LET entry == imagesState'[Len(imagesState')]
                     IN  /\ entry.imageDataUrl = f
                         /\ entry.points = <<>>
                         /\ entry.currentMask = nullMask
                         /\ entry.savedMasks = <<>>
                         /\ entry.highlightedMaskIndex = null
                  /\ activeImageId # null => activeImageId' = activeImageId
        /\ Len(imagesState') >= Len(imagesState)
        /\ \A i \in ImageIds :
             imagesState'[i + 1].imageDataUrl = imagesState[i + 1].imageDataUrl ]_vars

\* C22 witness: the two files of a batch were decoded in the order second,
\* first, and the first entry is the active one.
C22_Witness ==
    /\ Len(imagesState) = 2
    /\ imagesState[1].imageDataUrl = 2
    /\ imagesState[2].imageDataUrl = 1
    /\ activeImageId = 0

\* C23: once an image has been decoded, the completion step of its batch
\* eventually runs, whether or not another file of the batch failed: the
\* thumbnails of all decoded images are rendered and an image is active.
C23_BatchCompletesDespiteFailure ==
    (Len(imagesState) > 0) ~> (thumbnails = Len(imagesState) /\ activeImageId # null)

\* C30: whenever isPredicting is true it eventually becomes false again.
C30_PredictingEnds == isPredicting ~> ~isPredicting

\* C30 witness: a second request has been issued on an image after the
\* first one failed.
C30_Witness ==
    /\ isPredicting
    /\ \E i \in ImageIds : Len(points(i)) = 2 /\ pendingMask(i) = nullMask
    /\ Len(tasks) = 1

\* C24: at most one pending mask is displayed at any time: the layer of
\* proposed masks never holds more than one mask.
C24_OnePendingMaskShown == Len(proposedLayer) <= 1

\* C25: a request is issued only by a mousedown that added a point; it
\* carries the image's whole point list, the earlier points first in their
\* order and the new one last; no request in flight has an empty list.
C25_RequestCarriesAllPoints ==
    /\ [][ /\ \A e \in MouseEvents :
                canvasMousedown(e)
                  => LET sent == tasks'[Len(tasks')].body
                     IN  /\ Len(tasks') = Len(tasks) + 1
                         /\ tasks'[Len(tasks')].img = activeImageId
                         /\ sent = pointsAfter(activeImageId)
                         /\ Len(sent) = Len(points(activeImageId)) + 1
                         /\ SubSeq(sent, 1, Len(sent) - 1) = points(activeImageId)
           /\ Len(tasks') > Len(tasks) => \E e \in MouseEvents : canvasMousedown(e) ]_vars
    /\ [](\A k \in 1 .. Len(tasks) : tasks[k].body # <<>>)

\* C25 witness: the request in flight carries both points of its image, a
\* positive one followed by a negative one.
C25_Witness ==
    \E k \in 1 .. Len(tasks) :
        /\ tasks[k].stage = "fetch"
        /\ Len(tasks[k].body) = 2
        /\ tasks[k].body = points(tasks[k].img)
        /\ tasks[k].body[1].label = 1
        /\ tasks[k].body[2].label = 0

\* C26: the classes never hold two entries of the same name nor an entry
\* with an empty name; an add click whose trimmed name is empty or already
\* registered leaves the classes and the active class unchanged.
C26_ClassNamesUnique ==
    /\ [](\A n, m \in 1 .. Len(classes) :
            /\ classes[n].name # ""
            /\ n # m => classes[n].name # classes[m].name)
    /\ [][ \A value \in NameInputs : \A color \in ClassColors :
             ( /\ addClassButtonClick(value, color)
               /\ \/ trim(value) = ""
                  \/ \E n \in 1 .. Len(classes) : classes[n].name = trim(value) )
               => UNCHANGED << classes, activeClass >> ]_vars

\* C26 witness: two classes of different names are registered and the
\* first of them is the active class.
C26_Witness ==
    /\ Len(classes) = 2
    /\ classes[1].name = "cat"
    /\ classes[2].name = "dog"
    /\ activeClass = "cat"

\* C27: the payload posted by an export click has one entry per loaded
\* image in id order, made of the image's data URL and of all its confirmed
\* masks in their order, each with its mask image and the class name and
\* color stored when it was confirmed, and nothing else (no points, no
\* pending mask), next to the whole class list; a confirmed mask keeps the
\* class name and color it was stored with; the click and the settling of
\* the request, successful or not, change nothing of the session.
C27_ExportIsProjection ==
    [][ /\ (exportButtonClick /\ Len(imagesState) > 0)
             => /\ Len(exports') = Len(exports) + 1
                /\ LET payload == exports'[Len(exports')].payload
                   IN  /\ DOMAIN payload = {"imagesState", "classes"}
                       /\ payload.classes = classes
                       /\ Len(payload.imagesState) = Len(imagesState)
                       /\ \A n \in 1 .. Len(imagesState) :
                            LET entry == payload.imagesState[n]
                                saved == imagesState[n].savedMasks
                            IN  /\ DOMAIN entry = {"imageDataUrl", "savedMasks"}
                                /\ entry.imageDataUrl = imagesState[n].imageDataUrl
                                /\ Len(entry.savedMasks) = Len(saved)
                                /\ \A j \in 1 .. Len(saved) :
                                     /\ entry.savedMasks[j].maskImage = saved[j].maskImageSrc
                                     /\ entry.savedMasks[j].className = saved[j].className
                                     /\ entry.savedMasks[j].classColor = saved[j].classColor
        /\ ( \/ exportButtonClick
             \/ \E k \in 1 .. Len(exports) : \E outcome \in FetchOutcomes :
                    exportFetchSettles(k, outcome)
             \/ \E k \in 1 .. Len(exports) : \E read \in BOOLEAN :
                    exportBlobSettles(k, read) )
             => UNCHANGED << imagesState, activeImageId, classes, activeClass,
                             isPredicting, tasks, batches >>
        /\ \A n \in 1 .. Len(imagesState) :
             \A j \in 1 .. Len(imagesState[n].savedMasks) :
                /\ Len(imagesState'[n].savedMasks) >= j
                /\ imagesState'[n].savedMasks[j] = imagesState[n].savedMasks[j]
        /\ \A n \in 1 .. Len(imagesState) :
             Len(imagesState'[n].savedMasks) > Len(imagesState[n].savedMasks)
               => LET m == imagesState'[n].savedMasks[Len(imagesState'[n].savedMasks)]
                  IN  /\ m.className = activeClass
                      /\ m.classColor = findClassByName(activeClass).color
      ]_vars

\* C27 witness: an export is in flight whose payload lists an image with
\* one confirmed mask of class cat, and the class list.
C27_Witness ==
    \E k \in 1 .. Len(exports) :
        /\ exports[k].stage = "fetch"
        /\ Len(exports[k].payload.classes) > 0
        /\ \E n \in 1 .. Len(exports[k].payload.imagesState) :
              /\ Len(exports[k].payload.imagesState[n].savedMasks) = 1
              /\ exports[k].payload.imagesState[n].savedMasks[1].className = "cat"

\* C28: a pending mask always lies in the entry of the image its request
\* was issued for; the continuation that stores a result writes it into
\* that entry, whichever image is active by then, and leaves the pending
\* mask of every other image, the active one included, as it was.
C28_ResultStoredOnRequestImage ==
    /\ [](\A i \in ImageIds : pendingMask(i) # nullMask => pendingMask(i).img = i)
    /\ [][ \A k \in 1 .. Len(tasks) :
             coloredMaskReady(k)
               => /\ pendingMaskAfter(tasks[k].img) # nullMask
                  /\ pendingMaskAfter(tasks[k].img).img = tasks[k].img
                  /\ pendingMaskAfter(tasks[k].img).pts = tasks[k].body
                  /\ \A j \in ImageIds \ {tasks[k].img} :
                       pendingMaskAfter(j) = pendingMask(j) ]_vars

\* C28 witness: the second image is active and has no pending mask, while
\* the first one holds the mask of the request issued for it.
C28_Witness ==
    /\ Len(imagesState) = 2
    /\ activeImageId = 1
    /\ pendingMask(1) = nullMask
    /\ pendingMask(0) # nullMask
    /\ pendingMask(0).img = 0
    /\ tasks = <<>>

\* C29: at most one request is between its issue and the end of its fetch
\* (the response received and its body read); isPredicting is set exactly
\* then; while it is set no step adds a point to any image or issues a
\* request.
C29_OneFetchInFlight ==
    /\ [](/\ isPredicting <=> FetchOutstanding
          /\ \A k, l \in 1 .. Len(tasks) :
               (tasks[k].stage \in {"fetch", "json"} /\ tasks[l].stage \in {"fetch", "json"})
                 => k = l)
    /\ [][ /\ isPredicting
             => /\ Len(tasks') <= Len(tasks)
                /\ \A i \in ImageIds : Len(pointsAfter(i)) <= Len(points(i))
           /\ (~isPredicting /\ isPredicting')
             => /\ Len(tasks') = Len(tasks) + 1
                /\ tasks'[Len(tasks')].stage = "fetch"
           /\ (isPredicting /\ ~isPredicting')
             => \E k \in 1 .. Len(tasks) :
                   /\ tasks[k].stage \in {"fetch", "json"}
                   /\ \/ Len(tasks') < Len(tasks)
                      \/ tasks'[k].stage = "recolor" ]_vars

\* C29 witness: a request is reading its response body while the result of
\* an earlier request is still being recolored.
C29_Witness ==
    /\ isPredicting
    /\ Len(tasks) = 2
    /\ tasks[1].stage = "recolor"
    /\ tasks[2].stage = "json"

\* C31: after every handler or callback the clear button is enabled
\* exactly when the active image has a point or a pending mask, and the
\* save button exactly when there is an active image with a pending mask
\* and an active class.
C31_ButtonsAgreeWithSession ==
    LET hasCurrentWork ==
            /\ hasActiveImageState
            /\ \/ Len(getActiveImageState.points) > 0
               \/ getActiveImageState.currentMask # nullMask
        canSave ==
            /\ hasActiveImageState
            /\ getActiveImageState.currentMask # nullMask
            /\ activeClass # noClass
    IN  /\ clearDisabled = ~hasCurrentWork
        /\ saveDisabled = ~canSave

====
